---- MODULE Spec2Model ----
(***************************************************************************)
(* Pair mining (renal_biopsy_scripts/data.py, generate_patch_pairs) and    *)
(* the bucket-indexed paired dataset (renal_biopsy_scripts/dataset.py,     *)
(* PatchPairs) of vigsivan/CLAM.                                           *)
(*                                                                         *)
(* The shard directory is a map from slide identifier to the state of the  *)
(* file <slide_id>.h5.  An HDF5 file is a map from dataset names to        *)
(* sequences of index pairs; a name outside its domain makes f[name]       *)
(* raise KeyError, as h5py does.  A file that is missing or is not HDF5    *)
(* makes h5py.File(..., 'r') raise OSError.                                *)
(***************************************************************************)
EXTENDS Integers, Sequences, FiniteSets, TLC

\* ------------------------------------------------------------------ bounds
\* Largest number of shard files in a generated shard directory.
MaxShards == 2
\* Largest number of entries of one collection in a generated shard.
MaxPairs == 2
\* How far outside [0, num_pairs) the queried indices go.
MaxOutside == 1
\* Largest number of slides in the slides directory of a mining run.
MaxSlides == 2

\* ------------------------------------------------------------- shard files
LABELS == <<"similar", "dissimilar">>

\* an HDF5 file without datasets
NoDatasets == [label \in {} |-> <<>>]

Missing == [kind |-> "missing", data |-> NoDatasets]
Corrupt == [kind |-> "corrupt", data |-> NoDatasets]
Hdf5(d) == [kind |-> "hdf5", data |-> d]

\* the test looks at a path the run never writes
ExistsAtOtherPath(file) == file.kind = "elsewhere"

\* os.path.exists(save_file)
Exists(file) == file.kind # "missing"

\* h5py.File(path, 'r') succeeds
Readable(file) == file.kind = "hdf5"

\* label in f
Has(file, label) == Readable(file) /\ label \in DOMAIN file.data

\* len(f[label]) for a dataset that is there
Count(file, label) == Len(file.data[label])

\* A shard holding both collections.
Complete(file) == Has(file, "similar") /\ Has(file, "dissimilar")

\* n index pairs (0,1), (0,2), ... standing for the content of a collection
PairList(n) == [k \in 1..n |-> <<0, k>>]

Collections == {PairList(n) : n \in 0..MaxPairs}

\* Every content an HDF5 shard file can have: each collection there or not.
Hdf5Files ==
    {Hdf5(d) : d \in UNION {[L -> Collections] : L \in SUBSET {"similar", "dissimilar"}}}

ShardFiles == Hdf5Files \cup {Corrupt, Missing}

Perms(S) ==
    {p \in [1..Cardinality(S) -> S] : \A i, j \in 1..Cardinality(S) : p[i] = p[j] => i = j}

\* The shard directories the index is built over: up to MaxShards files of
\* any content, and the directory of the spec's scenario.
GeneratedDirectories == UNION {[1..n -> ShardFiles] : n \in 0..MaxShards}

\* 3 slides, similar counts [5,0,3], dissimilar counts [2,4,1].
ScenarioDirectory ==
    <<Hdf5([similar |-> PairList(5), dissimilar |-> PairList(2)]),
      Hdf5([similar |-> PairList(0), dissimilar |-> PairList(4)]),
      Hdf5([similar |-> PairList(3), dissimilar |-> PairList(1)])>>

VARIABLES
    shards,            \* the shard directory: slide id -> file <slide id>.h5
    slide_ids,         \* dataset.PatchPairs.slide_ids, in os.listdir order
    pos,               \* position of the construction loop in slide_ids
    num_pairs,         \* dataset.PatchPairs.num_pairs
    buckets_to_slide,  \* dataset.PatchPairs.buckets_to_slide, in insertion order
    ipc,               \* "idle", "building", "built" or "aborted" (OSError)
    query,             \* the index last passed to __getitem__
    item,              \* what __getitem__ did with it
    slides,            \* the slides directory: slide id -> properties, coords
    cfg,               \* the arguments of generate_patch_pairs
    mi,                \* position of the mining loop in the slides directory
    mpc,               \* where generate_patch_pairs is
    raised             \* the exceptions generate_patch_pairs has raised

ivars == <<slide_ids, pos, num_pairs, buckets_to_slide, ipc, query, item>>

mvars == <<slides, cfg, mi, mpc, raised>>

\* --------------------------------------------------------------- dict
\* A Python dict as the sequence of its (key, value) entries in insertion
\* order: assigning to a key that is there keeps the key's position.
DictKeys(d) == {d[i].key : i \in 1..Len(d)}

DictGet(d, k) == d[CHOOSE i \in 1..Len(d) : d[i].key = k].value

DictSet(d, k, v) ==
    IF k \in DictKeys(d)
    THEN [i \in 1..Len(d) |-> IF d[i].key = k THEN [key |-> k, value |-> v] ELSE d[i]]
    ELSE Append(d, [key |-> k, value |-> v])

\* ------------------------------------------------ dataset.PatchPairs.__init__
\* The try block of __init__: len(f[label]) is added label by label, and the
\* first KeyError ends the loop with what was added so far.
RECURSIVE HeaderCountFrom(_, _)
HeaderCountFrom(file, k) ==
    IF k > Len(LABELS) \/ ~Has(file, LABELS[k])
    THEN 0
    ELSE Count(file, LABELS[k]) + HeaderCountFrom(file, k + 1)

HeaderCountSimilarOnly(file) ==
    IF Has(file, "similar") THEN Count(file, "similar") ELSE 0

HeaderCount(file) == HeaderCountFrom(file, 1)

ShardRangeInclusive(start, stop) == <<start, stop - 1>>

\* The key (start, stop) of one slide.
ShardRange(start, stop) == <<start, stop>>

NoBucket == <<>>

GetBucketClosedStop(buckets, index) ==
    LET hits == {i \in 1..Len(buckets) :
                    index > buckets[i].key[1] /\ index <= buckets[i].key[2]}
    IN  IF hits = {} THEN NoBucket
        ELSE buckets[CHOOSE i \in hits : \A j \in hits : i <= j].key

\* The first key, in insertion order, that contains the index; None without one.
get_bucket_from_index(buckets, index) ==
    LET hits == {i \in 1..Len(buckets) :
                    index > buckets[i].key[1] /\ index < buckets[i].key[2]}
    IN  IF hits = {} THEN NoBucket
        ELSE buckets[CHOOSE i \in hits : \A j \in hits : i <= j].key

Raised(error) ==
    [outcome |-> error, slide_id |-> 0, label |-> "", patch_index |-> 0]

Returned(slide_id, label, patch_index) ==
    [outcome |-> "item", slide_id |-> slide_id, label |-> label,
     patch_index |-> patch_index]

\* dataset.PatchPairs.__getitem__: the entry read, or the exception raised.
\* The patch store is taken to hold every patch a shard entry names.
getitem(dir, buckets, index) ==
    LET bucket == get_bucket_from_index(buckets, index) IN
    IF bucket \notin DictKeys(buckets) THEN Raised("KeyError")
    ELSE
    LET slide_id == DictGet(buckets, bucket)
        f == dir[slide_id]
        patch_index == index - bucket[1]
    IN  IF ~Readable(f) THEN Raised("OSError")
        ELSE IF ~Has(f, "similar") THEN Raised("KeyError")
        ELSE IF patch_index < Count(f, "similar")
             THEN Returned(slide_id, "similar", patch_index)
        ELSE IF ~Has(f, "dissimilar") THEN Raised("KeyError")
        ELSE IF patch_index < Count(f, "dissimilar")
             THEN Returned(slide_id, "dissimilar", patch_index)
        ELSE Raised("IndexError")

NoItem == Raised("none")

\* dataset.PatchPairs.__init__, lines 21-31, as a function of the listing:
\* the fields after the loop has taken the files order[k..] of a directory
\* of readable files, from num_pairs = n and buckets_to_slide = buckets.
RECURSIVE BuildFrom(_, _, _, _, _)
BuildFrom(dir, order, k, n, buckets) ==
    IF k > Len(order) THEN [num_pairs |-> n, buckets_to_slide |-> buckets]
    ELSE LET slide_id == order[k]
             start == n
             stop == n + HeaderCount(dir[slide_id])
         IN  BuildFrom(dir, order, k + 1, stop,
                       DictSet(buckets, ShardRange(start, stop), slide_id))

\* data.PatchPairs.__init__, lines 80-87: the items one file adds to the
\* list, the similar entries and then the dissimilar ones.
CatItems(slide_id, f) ==
    [i \in 1..Count(f, "similar") |->
        [slide_id |-> slide_id, category |-> "similar", index |-> i - 1]]
    \o [i \in 1..Count(f, "dissimilar") |->
        [slide_id |-> slide_id, category |-> "dissimilar", index |-> i - 1]]

\* data.PatchPairs.__init__, lines 73-87: the list patch_pairs over the files
\* order[k..] of a directory of complete shards.
RECURSIVE FlatPatchPairs(_, _, _)
FlatPatchPairs(dir, order, k) ==
    IF k > Len(order) THEN <<>>
    ELSE CatItems(order[k], dir[order[k]]) \o FlatPatchPairs(dir, order, k + 1)

\* data.PatchPairs.__getitem__, lines 92-102: the entry read through the
\* list; a negative index counts from the end of the list, as in Python.
flat_getitem(patch_pairs, index) ==
    LET n == Len(patch_pairs)
        at == IF index < 0 THEN index + n ELSE index
    IN  IF at < 0 \/ at >= n THEN Raised("IndexError")
        ELSE LET patch_pair_info == patch_pairs[at + 1]
             IN  Returned(patch_pair_info.slide_id, patch_pair_info.category,
                          patch_pair_info.index)

NoIndex ==
    /\ slide_ids = <<>>
    /\ pos = 0
    /\ num_pairs = 0
    /\ buckets_to_slide = <<>>
    /\ ipc = "idle"
    /\ query = 0
    /\ item = NoItem

\* __init__, lines 17-19: the directory listing, in whatever order the
\* file system gives it, and the empty index.
ListDir ==
    /\ ipc = "idle"
    /\ slide_ids' \in Perms(DOMAIN shards)
    /\ pos' = 1
    /\ num_pairs' = 0
    /\ buckets_to_slide' = <<>>
    /\ ipc' = "building"
    /\ UNCHANGED <<shards, query, item, mvars>>

\* __init__, lines 21-31, one slide: the file is opened (OSError leaves
\* __init__), its counts are added and its key is assigned.
IndexShard ==
    /\ ipc = "building"
    /\ pos <= Len(slide_ids)
    /\ LET slide_id == slide_ids[pos]
           f == shards[slide_id]
           start == num_pairs
           stop == num_pairs + HeaderCount(f)
       IN  IF ~Readable(f)
           THEN /\ ipc' = "aborted"
                /\ UNCHANGED <<pos, num_pairs, buckets_to_slide>>
           ELSE /\ num_pairs' = stop
                /\ buckets_to_slide' =
                       DictSet(buckets_to_slide, ShardRange(start, stop), slide_id)
                /\ pos' = pos + 1
                /\ ipc' = "building"
    /\ UNCHANGED <<shards, slide_ids, query, item, mvars>>

\* __init__, lines 33-37: the fields are set and the dataset is there.
Built ==
    /\ ipc = "building"
    /\ pos > Len(slide_ids)
    /\ ipc' = "built"
    /\ UNCHANGED <<shards, slide_ids, pos, num_pairs, buckets_to_slide, query, item, mvars>>

Queries == (0 - MaxOutside)..(num_pairs + MaxOutside - 1)

\* __getitem__(index) on the constructed dataset.
GetItem ==
    /\ ipc = "built"
    /\ \E index \in Queries :
          /\ query' = index
          /\ item' = getitem(shards, buckets_to_slide, index)
    /\ UNCHANGED <<shards, slide_ids, pos, num_pairs, buckets_to_slide, ipc, mvars>>

NextIndex == ListDir \/ IndexShard \/ Built \/ GetItem

\* ------------------------------------------------ data.generate_patch_pairs
\* Lengths are whole microns: a threshold of the model is 1000 times the
\* argument in millimetres, and Scale is 1000 * millimeters_per_pixel.
MPP_X == "openslide.mpp-x"
MPP_Y == "openslide.mpp-y"

MPP_PROPS == <<MPP_X, MPP_X>>

Max(S) == CHOOSE x \in S : \A y \in S : y <= x

\* 1000 * max([(mpp * downsample) / 1000 for mpp in microns_per_pixel_lvl0])
Scale(properties, downsample) ==
    Max({properties[MPP_PROPS[k]] * downsample : k \in 1..Len(MPP_PROPS)})

\* cdist(coords, coords)[i, j] ** 2, rows and columns counted from 0
PixelDistance2(coords, i, j) ==
    LET a == coords[i + 1]
        b == coords[j + 1]
    IN  (a[1] - b[1]) * (a[1] - b[1]) + (a[2] - b[2]) * (a[2] - b[2])

\* (1000 * distances[i, j]) ** 2 with distances = sqrt(2) * mm_per_pixel * cdist
Distance2(coords, scale, i, j) == 2 * scale * scale * PixelDistance2(coords, i, j)

\* the cells (i, j) of an n x n matrix in row-major order, as np.argwhere scans
Cells(n) == [k \in 1..(n * n) |-> <<(k - 1) \div n, (k - 1) % n>>]

\* ---- the doubles of line 53 ----
\* The distances are IEEE doubles: each division, square root and product is
\* rounded to 53 bits, to nearest, ties to even. A natural number is a
\* sequence of limbs in base 2^15, lowest first, <<>> for 0; a positive
\* double is [m, e] for m * 2^e with 2^52 <= m < 2^53.
LimbBase == 32768

RECURSIVE BigNorm(_)
BigNorm(a) ==
    IF a = <<>> THEN a
    ELSE IF a[Len(a)] = 0 THEN BigNorm(SubSeq(a, 1, Len(a) - 1)) ELSE a

RECURSIVE BigOf(_)
BigOf(n) == IF n = 0 THEN <<>> ELSE <<n % LimbBase>> \o BigOf(n \div LimbBase)

RECURSIVE BigAddCarry(_, _, _)
BigAddCarry(a, b, c) ==
    IF a = <<>> /\ b = <<>> THEN BigOf(c)
    ELSE LET x == (IF a = <<>> THEN 0 ELSE Head(a)) + (IF b = <<>> THEN 0 ELSE Head(b)) + c
         IN  <<x % LimbBase>>
             \o BigAddCarry(IF a = <<>> THEN a ELSE Tail(a),
                            IF b = <<>> THEN b ELSE Tail(b), x \div LimbBase)

BigAdd(a, b) == BigAddCarry(a, b, 0)

RECURSIVE BigMulSmallCarry(_, _, _)
BigMulSmallCarry(a, s, c) ==
    IF a = <<>> THEN BigOf(c)
    ELSE LET x == Head(a) * s + c
         IN  <<x % LimbBase>> \o BigMulSmallCarry(Tail(a), s, x \div LimbBase)

\* a * s for 0 <= s < 2^15
BigMulSmall(a, s) == BigNorm(BigMulSmallCarry(a, s, 0))

RECURSIVE BigMul(_, _)
BigMul(a, b) ==
    IF b = <<>> THEN <<>>
    ELSE LET r == BigMul(a, Tail(b))
         IN  BigAdd(BigMulSmall(a, Head(b)), IF r = <<>> THEN r ELSE <<0>> \o r)

RECURSIVE BigCmpFrom(_, _, _)
BigCmpFrom(a, b, k) ==
    IF k = 0 THEN 0
    ELSE IF a[k] # b[k] THEN (IF a[k] < b[k] THEN 0 - 1 ELSE 1)
    ELSE BigCmpFrom(a, b, k - 1)

\* -1, 0 or 1 as a < b, a = b or a > b
BigCmp(a, b) ==
    IF Len(a) # Len(b) THEN (IF Len(a) < Len(b) THEN 0 - 1 ELSE 1)
    ELSE BigCmpFrom(a, b, Len(a))

RECURSIVE Pow2(_)
Pow2(k) == IF k = 0 THEN 1 ELSE 2 * Pow2(k - 1)

RECURSIVE BitLen(_)
BitLen(n) == IF n = 0 THEN 0 ELSE 1 + BitLen(n \div 2)

BigBitLen(a) == IF a = <<>> THEN 0 ELSE 15 * (Len(a) - 1) + BitLen(a[Len(a)])

\* a * 2^k
BigShl(a, k) ==
    IF a = <<>> THEN a
    ELSE [i \in 1..(k \div 15) |-> 0] \o BigMulSmall(a, Pow2(k % 15))

RECURSIVE BigDivSmallFrom(_, _, _, _)
BigDivSmallFrom(a, d, k, r) ==
    IF k = 0 THEN [q |-> <<>>, r |-> r]
    ELSE LET x == r * LimbBase + a[k]
             lower == BigDivSmallFrom(a, d, k - 1, x % d)
         IN  [q |-> lower.q \o <<x \div d>>, r |-> lower.r]

\* quotient and remainder of a by d, 0 < d < 2^15
BigDivSmall(a, d) ==
    LET x == BigDivSmallFrom(a, d, Len(a), 0) IN [q |-> BigNorm(x.q), r |-> x.r]

\* a \div 2^k, and whether a bit was dropped
BigShrSticky(a, k) ==
    LET limbs == k \div 15
        d == BigDivSmall(SubSeq(a, limbs + 1, Len(a)), Pow2(k % 15))
    IN  [q |-> d.q, sticky |-> d.r # 0 \/ \E i \in 1..limbs : a[i] # 0]

\* the double nearest to (M + f) * 2^e, ties to even, where 0 <= f < 1 and
\* f > 0 exactly when sticky
RoundDouble(M, e, sticky) ==
    LET L == BigBitLen(M) IN
    IF L <= 53 THEN [m |-> BigShl(M, 53 - L), e |-> e - (53 - L)]
    ELSE LET s == BigShrSticky(M, L - 54)
             h == BigDivSmall(s.q, 2)
             up == h.r = 1 /\ (sticky \/ s.sticky \/ h.q[1] % 2 = 1)
             q == IF up THEN BigAdd(h.q, <<1>>) ELSE h.q
         IN  IF BigBitLen(q) = 54
             THEN [m |-> BigDivSmall(q, 2).q, e |-> e + (L - 53) + 1]
             ELSE [m |-> q, e |-> e + (L - 53)]

\* n / d in the doubles, for integers n > 0 and 0 < d < 2^15
FloatDiv(n, d) ==
    LET x == BigDivSmall(BigShl(BigOf(n), 66), d)
    IN  RoundDouble(x.q, 0 - 66, x.r # 0)

\* x * y in the doubles
FloatMul(x, y) == RoundDouble(BigMul(x.m, y.m), x.e + y.e, FALSE)

RECURSIVE BigIsqrtFrom(_, _, _)
BigIsqrtFrom(N, r, b) ==
    IF b < 0 THEN r
    ELSE IF BigCmp(BigMul(BigAdd(r, BigShl(<<1>>, b)), BigAdd(r, BigShl(<<1>>, b))), N) <= 0
         THEN BigIsqrtFrom(N, BigAdd(r, BigShl(<<1>>, b)), b - 1)
         ELSE BigIsqrtFrom(N, r, b - 1)

\* the integer square root of N < 2^108
BigIsqrt(N) == BigIsqrtFrom(N, <<>>, 53)

\* sqrt(n) in the doubles, for an integer n > 0: np.sqrt, and the square
\* root cdist takes of the sum of the squared differences
FloatSqrt(n) ==
    LET sh == IF (108 - BitLen(n)) % 2 = 0 THEN 108 - BitLen(n) ELSE 107 - BitLen(n)
        N == BigShl(BigOf(n), sh)
        r == BigIsqrt(N)
    IN  RoundDouble(r, 0 - (sh \div 2), BigCmp(BigMul(r, r), N) # 0)

\* x < y for positive doubles
FloatLess(x, y) == x.e < y.e \/ (x.e = y.e /\ BigCmp(x.m, y.m) < 0)

\* np.sqrt(2) * millimeters_per_pixel * cdist(coords, coords)[i, j], for the
\* scale 1000 * millimeters_per_pixel and the squared pixel distance pd2 > 0
FloatDistance(scale, pd2) ==
    FloatMul(FloatMul(FloatSqrt(2), FloatDiv(scale, 1000)), FloatSqrt(pd2))

\* distances[i, j] < t / 1000 and distances[i, j] > t / 1000, for a cell of
\* squared pixel distance pd2 and a threshold of t microns. The roundings of
\* line 53 move a distance by less than one part in 2^50 and unequal squares
\* of whole microns differ by far more, so the doubles decide the comparison
\* only when the exact distance equals the threshold.
Below(pd2, scale, t) ==
    LET d2 == 2 * scale * scale * pd2 IN
    IF t <= 0 THEN FALSE
    ELSE IF d2 # t * t THEN d2 < t * t
    ELSE FloatLess(FloatDistance(scale, pd2), FloatDiv(t, 1000))

Above(pd2, scale, t) ==
    LET d2 == 2 * scale * scale * pd2 IN
    IF t < 0 THEN TRUE
    ELSE IF t = 0 \/ d2 # t * t THEN d2 > t * t
    ELSE FloatLess(FloatDiv(t, 1000), FloatDistance(scale, pd2))

\* np.argwhere((distances < maximim_similar_mm) & (distances > 0))
Similar(coords, scale, c) ==
    LET Test(ij) ==
            /\ Below(PixelDistance2(coords, ij[1], ij[2]), scale, c.maximim_similar_mm)
            /\ Distance2(coords, scale, ij[1], ij[2]) > 0
    IN  SelectSeq(Cells(Len(coords)), Test)

\* np.argwhere(distances > minimum_dissimilar_mm)
Dissimilar(coords, scale, c) ==
    LET Test(ij) ==
            Above(PixelDistance2(coords, ij[1], ij[2]), scale, c.minimum_dissimilar_mm)
    IN  SelectSeq(Cells(Len(coords)), Test)

FailureWithoutDissimilarCheck(slide, c) ==
    IF MPP_PROPS[1] \notin DOMAIN slide.properties THEN "mpp"
    ELSE IF Len(Similar(slide.coords, Scale(slide.properties, c.downsample), c))
                < c.num_similar_per_slide
         THEN "similar"
         ELSE ""

\* lines 44-61 for one slide: the exception raised, or "" when the slide
\* reaches the write
Failure(slide, c) ==
    IF MPP_PROPS[1] \notin DOMAIN slide.properties THEN "mpp"
    ELSE IF \E k \in 1..Len(MPP_PROPS) : MPP_PROPS[k] \notin DOMAIN slide.properties
         THEN "KeyError"
    ELSE LET scale == Scale(slide.properties, c.downsample)
         IN  IF Len(Similar(slide.coords, scale, c)) < c.num_similar_per_slide
             THEN "similar"
             ELSE IF Len(Dissimilar(slide.coords, scale, c)) < c.num_dissimilar_per_slide
                  THEN "dissimilar"
                  ELSE ""

\* the datasets lines 64-65 create, in the order they create them
ShardData(slide, c) ==
    LET scale == Scale(slide.properties, c.downsample)
    IN  [similar |-> Similar(slide.coords, scale, c),
         dissimilar |-> Dissimilar(slide.coords, scale, c)]

\* the shard file a completed write leaves for a slide
Shard(slide, c) == Hdf5(ShardData(slide, c))

Restrict(f, S) == [x \in S |-> f[x]]

\* the inputs of the mining runs
PropertySets ==
    {NoDatasets, [p \in {MPP_X} |-> 1], [p \in {MPP_X, MPP_Y} |-> IF p = MPP_X THEN 1 ELSE 2]}

CoordSets == {<<>>, <<<<0, 0>>, <<1, 0>>>>, <<<<0, 0>>, <<1, 0>>, <<4, 3>>>>}

Slides == [properties : PropertySets, coords : CoordSets]

Configs ==
    [downsample : {1}, maximim_similar_mm : {2}, minimum_dissimilar_mm : {4},
     num_similar_per_slide : {0, 2}, num_dissimilar_per_slide : {0, 4},
     auto_skip : BOOLEAN]

\* The save directory before the first run: the slides of `kept` have the
\* shard an earlier complete run with these arguments wrote, if it wrote one.
Earlier(dir, c, kept) ==
    [s \in DOMAIN dir |->
        IF s \in kept /\ Failure(dir[s], c) = "" THEN Shard(dir[s], c) ELSE Missing]

NoMining ==
    /\ slides = <<>>
    /\ cfg = CHOOSE c \in Configs : TRUE
    /\ mi = 0
    /\ mpc = "idle"
    /\ raised = <<>>

InitIndex ==
    /\ shards \in GeneratedDirectories \cup {ScenarioDirectory}
    /\ NoIndex
    /\ NoMining

InitMine ==
    /\ slides \in UNION {[1..n -> Slides] : n \in 0..MaxSlides}
    /\ cfg \in Configs
    /\ \E kept \in SUBSET DOMAIN slides : shards = Earlier(slides, cfg, kept)
    /\ mi = 0
    /\ mpc = "idle"
    /\ raised = <<>>
    /\ NoIndex

\* The inputs of the runs that mine one slide under any thresholds: both
\* resolutions, no patch, one patch, coinciding patches, two patches whose
\* distance is 0.004 mm at scale 1 and so equals a threshold, distance
\* thresholds in either order, a negative one, small minimum counts.
MppValues == {1, 2}

ClassifyProperties ==
    UNION {[K -> MppValues] : K \in SUBSET {MPP_X, MPP_Y}}

ClassifyCoordSets ==
    {<<>>, <<<<0, 0>>>>, <<<<0, 0>>, <<0, 0>>>>, <<<<0, 0>>, <<1, 0>>>>,
     <<<<0, 0>>, <<2, 2>>>>, <<<<0, 0>>, <<1, 0>>, <<4, 3>>>>}

ClassifyConfigs ==
    [downsample : {1, 2}, maximim_similar_mm : {2, 5},
     minimum_dissimilar_mm : {0 - 1, 1, 4},
     num_similar_per_slide : {0, 1}, num_dissimilar_per_slide : {0, 1, 2},
     auto_skip : {FALSE}]

InitClassify ==
    /\ slides \in [1..1 -> [properties : ClassifyProperties, coords : ClassifyCoordSets]]
    /\ cfg \in ClassifyConfigs
    /\ shards = [s \in 1..1 |-> Missing]
    /\ mi = 0
    /\ mpc = "idle"
    /\ raised = <<>>
    /\ NoIndex

Running == mpc \in {"loop", "write", "opened", "similar_written"}

\* generate_patch_pairs is called (again, after a run has ended): line 34
StartRun ==
    /\ ~Running
    /\ mi' = 1
    /\ mpc' = "loop"
    /\ raised' = <<>>
    /\ UNCHANGED <<shards, slides, cfg, ivars>>

\* lines 36-61 for the next slide: skipped, an exception that leaves the
\* function, or the pairs are there and the shard is about to be written
MineSlide ==
    /\ mpc = "loop"
    /\ mi <= Len(slides)
    /\ IF cfg.auto_skip /\ Exists(shards[mi])
       THEN /\ mi' = mi + 1
            /\ UNCHANGED <<mpc, raised>>
       ELSE IF Failure(slides[mi], cfg) # ""
            THEN /\ mpc' = "raised"
                 /\ raised' = Append(raised,
                        [slide_id |-> mi, reason |-> Failure(slides[mi], cfg)])
                 /\ UNCHANGED mi
            ELSE /\ mpc' = "write"
                 /\ UNCHANGED <<mi, raised>>
    /\ UNCHANGED <<shards, slides, cfg, ivars>>

\* line 63: h5py.File(save_file, mode='w') creates or truncates the file
OpenShard ==
    /\ mpc = "write"
    /\ shards' = [shards EXCEPT ![mi] = Hdf5(NoDatasets)]
    /\ mpc' = "opened"
    /\ UNCHANGED <<slides, cfg, mi, raised, ivars>>

\* line 64: f.create_dataset("similar", data=similar)
WriteSimilar ==
    /\ mpc = "opened"
    /\ shards' = [shards EXCEPT ![mi] =
                     Hdf5(Restrict(ShardData(slides[mi], cfg), {"similar"}))]
    /\ mpc' = "similar_written"
    /\ UNCHANGED <<slides, cfg, mi, raised, ivars>>

\* line 65 and the end of the with block: the second dataset, the file closed
WriteDissimilar ==
    /\ mpc = "similar_written"
    /\ shards' = [shards EXCEPT ![mi] = Shard(slides[mi], cfg)]
    /\ mi' = mi + 1
    /\ mpc' = "loop"
    /\ UNCHANGED <<slides, cfg, raised, ivars>>

\* the loop of line 36 is over
Finish ==
    /\ mpc = "loop"
    /\ mi > Len(slides)
    /\ mpc' = "done"
    /\ UNCHANGED <<shards, slides, cfg, mi, raised, ivars>>

\* The run is cancelled or the process dies.  A file that is open keeps what
\* was written (the with block closes it) or is left without a valid HDF5
\* structure (nothing was flushed).
Kill ==
    /\ Running
    /\ mpc' = "killed"
    /\ IF mpc \in {"opened", "similar_written"}
       THEN \E left \in {shards[mi], Corrupt} : shards' = [shards EXCEPT ![mi] = left]
       ELSE UNCHANGED shards
    /\ UNCHANGED <<slides, cfg, mi, raised, ivars>>

NextMine ==
    StartRun \/ MineSlide \/ OpenShard \/ WriteSimilar \/ WriteDissimilar \/ Finish \/ Kill

vars == <<shards, ivars, mvars>>

SpecIndex == InitIndex /\ [][NextIndex]_vars

SpecMine == InitMine /\ [][NextMine]_vars

SpecClassify == InitClassify /\ [][NextMine]_vars

\* ------------------------------------------------- claims on the index
IsBuilt == ipc = "built"

InRange == 0..(num_pairs - 1)

Outside == ((0 - MaxOutside)..(0 - 1)) \cup (num_pairs..(num_pairs + MaxOutside - 1))

Key(i) == buckets_to_slide[i].key

\* the ranges [start, stop) that hold g
Holding(g) == {i \in 1..Len(buckets_to_slide) : Key(i)[1] <= g /\ g < Key(i)[2]}

\* the slide a global index resolves to, 0 when it resolves to none
ResolvedSlide(g) ==
    LET bucket == get_bucket_from_index(buckets_to_slide, g)
    IN  IF bucket \in DictKeys(buckets_to_slide)
        THEN DictGet(buckets_to_slide, bucket) ELSE 0

\* the number of entries a shard file holds, over the collections it has
Entries(file) ==
    (IF Has(file, "similar") THEN Count(file, "similar") ELSE 0)
    + (IF Has(file, "dissimilar") THEN Count(file, "dissimilar") ELSE 0)

RECURSIVE SumEntries(_)
SumEntries(S) ==
    IF S = {} THEN 0
    ELSE LET s == CHOOSE x \in S : TRUE
         IN  Entries(shards[s]) + SumEntries(S \ {s})

CompleteSlides == {s \in DOMAIN shards : Complete(shards[s])}

PartialSlides == {s \in DOMAIN shards : Readable(shards[s]) /\ ~Complete(shards[s])}

UnreadableSlides == {s \in DOMAIN shards : ~Readable(shards[s])}

\* the slides some range of positive length maps to
IndexedSlides ==
    {buckets_to_slide[i].value : i \in {j \in 1..Len(buckets_to_slide) : Key(j)[1] < Key(j)[2]}}

\* C1: once the index is built over complete shards, every global index g in
\* [0, num_pairs) lies in
\* exactly one range start <= g < stop, get_bucket_from_index returns that
\* range (also when g = start), and the local offset g - start is in it.
C1_ResolveHalfOpen ==
    (IsBuilt /\ PartialSlides = {}) =>
        \A g \in InRange :
            /\ Cardinality(Holding(g)) = 1
            /\ \E i \in Holding(g) :
                  /\ get_bucket_from_index(buckets_to_slide, g) = Key(i)
                  /\ g - Key(i)[1] \in 0..(Key(i)[2] - Key(i)[1] - 1)

\* C2: once the index is built over complete shards, __getitem__ is a bijection from
\* [0, num_pairs) onto the entries of the shards: every index reads an entry
\* (slide, category, offset) with 0 <= offset < count, no two indices read the
\* same entry, and every entry of every complete shard is read by some index.
C2_Bijection ==
    (IsBuilt /\ PartialSlides = {}) =>
        /\ \A g \in InRange :
              LET it == getitem(shards, buckets_to_slide, g)
              IN  /\ it.outcome = "item"
                  /\ it.patch_index \in 0..(Count(shards[it.slide_id], it.label) - 1)
        /\ \A g, h \in InRange :
              g # h => getitem(shards, buckets_to_slide, g)
                          # getitem(shards, buckets_to_slide, h)
        /\ \A s \in CompleteSlides : \A label \in {"similar", "dissimilar"} :
              \A k \in 0..(Count(shards[s], label) - 1) :
                  \E g \in InRange :
                      getitem(shards, buckets_to_slide, g) = Returned(s, label, k)

\* C4: once the index is built, a shard that lacks its similar or its
\* dissimilar collection adds nothing to num_pairs and no global index
\* resolves to its slide.
C4_PartialNeverExposed ==
    IsBuilt =>
        /\ num_pairs = SumEntries(CompleteSlides)
        /\ \A g \in InRange : ResolvedSlide(g) \notin PartialSlides

\* C5: a missing or unreadable shard never aborts the construction; the built
\* index maps no range to that slide, and every complete shard that holds an
\* entry has a range of its full count.
C5_BadShardSkipped ==
    /\ ipc # "aborted"
    /\ IsBuilt =>
          /\ \A i \in 1..Len(buckets_to_slide) :
                buckets_to_slide[i].value \notin UnreadableSlides
          /\ \A s \in CompleteSlides :
                Entries(shards[s]) > 0 =>
                    \E i \in 1..Len(buckets_to_slide) :
                        /\ buckets_to_slide[i].value = s
                        /\ Key(i)[2] - Key(i)[1] = Entries(shards[s])

\* C7: the built index holds two ranges for each shard, the similar range and
\* then the dissimilar range, each as long as its collection; over the
\* scenario directory it holds 6 ranges that sum to 15 and index 7 resolves to
\* slide 2.
C7_TwoRangesPerShard ==
    (IsBuilt /\ PartialSlides = {}) =>
        /\ Len(buckets_to_slide) = 2 * Len(slide_ids)
        /\ \A k \in 1..Len(slide_ids) :
              /\ buckets_to_slide[2 * k - 1].value = slide_ids[k]
              /\ Key(2 * k - 1)[2] - Key(2 * k - 1)[1]
                    = Count(shards[slide_ids[k]], "similar")
              /\ buckets_to_slide[2 * k].value = slide_ids[k]
              /\ Key(2 * k)[2] - Key(2 * k)[1]
                    = Count(shards[slide_ids[k]], "dissimilar")
        /\ (shards = ScenarioDirectory /\ slide_ids = <<1, 2, 3>>) =>
              /\ Len(buckets_to_slide) = 6
              /\ num_pairs = 15
              /\ ResolvedSlide(7) = 2

\* C8: in the built index the ranges, in insertion order, start at 0, each
\* starts where the one before it stops, none overlaps another, and every
\* index of [0, num_pairs) lies in exactly one of them and none lies beyond.
C8_Contiguous ==
    IsBuilt =>
        /\ Len(buckets_to_slide) > 0 => Key(1)[1] = 0
        /\ \A i \in 1..Len(buckets_to_slide) :
              /\ Key(i)[1] <= Key(i)[2]
              /\ Key(i)[2] <= num_pairs
              /\ i > 1 => Key(i)[1] = Key(i - 1)[2]
        /\ \A i, j \in 1..Len(buckets_to_slide) :
              i < j => Key(i)[2] <= Key(j)[1]
        /\ \A g \in InRange : Cardinality(Holding(g)) = 1

\* a built index of several ranges, one of them empty
C8_Witness ==
    /\ IsBuilt
    /\ Len(buckets_to_slide) >= 2
    /\ num_pairs > 1
    /\ \E i \in 1..Len(buckets_to_slide) : Key(i)[1] = Key(i)[2]

\* C9: the length of the built dataset is the sum, over the shards the index
\* maps a range of indices to, of the entries of their similar and dissimilar
\* collections, and it is the stop of the last range.
C9_TotalLength ==
    IsBuilt =>
        /\ num_pairs = SumEntries(IndexedSlides)
        /\ Len(buckets_to_slide) > 0 => Key(Len(buckets_to_slide))[2] = num_pairs
        /\ Len(buckets_to_slide) = 0 => num_pairs = 0

\* a built index over two shards that both hold similar and dissimilar entries
C9_Witness ==
    /\ IsBuilt
    /\ Cardinality(IndexedSlides) >= 2
    /\ \A s \in IndexedSlides :
          /\ Complete(shards[s])
          /\ Count(shards[s], "similar") > 0
          /\ Count(shards[s], "dissimilar") > 0

C17_StableOrder ==
    (IsBuilt /\ PartialSlides = {}) =>
        \A order \in Perms(DOMAIN shards) :
            BuildFrom(shards, order, 1, 0, <<>>).buckets_to_slide = buckets_to_slide

\* C19: over complete shards read in the order of the listing, the bucket
\* index and the flat list have the same length, and every index below it
\* reads the same slide, category and position through both.
C19_ImplementationsAgree ==
    (IsBuilt /\ PartialSlides = {}) =>
        LET patch_pairs == FlatPatchPairs(shards, slide_ids, 1)
        IN  /\ num_pairs = Len(patch_pairs)
            /\ \A index \in 0..(Len(patch_pairs) - 1) :
                  getitem(shards, buckets_to_slide, index)
                      = flat_getitem(patch_pairs, index)

\* ------------------------------------------------ claims on the mining run
\* a slide that has its resolution metadata and enough pairs of both kinds
MeetsRequirements(slide) ==
    /\ {MPP_X, MPP_Y} \subseteq DOMAIN slide.properties
    /\ Failure(slide, cfg) = ""

RunEnded == mpc \in {"done", "raised"}

\* C3: at every point of a mining run, a shard file that exists at its final
\* path holds the complete similar and the complete dissimilar collection of
\* its slide.
C3_NoPartialShard ==
    \A s \in DOMAIN shards :
        Exists(shards[s]) => shards[s] = Shard(slides[s], cfg)

\* C6: when a run has ended, by reaching the end of the slides or by the
\* exception of a failing slide, every slide that meets its requirements has
\* its shard, wherever it stands in the directory listing.
C6_SiblingsSurvive ==
    RunEnded =>
        \A s \in DOMAIN slides :
            MeetsRequirements(slides[s]) => shards[s] = Shard(slides[s], cfg)

\* the pairs the classifier finds for a slide that has its x resolution
Found(slide, label) ==
    LET scale == Scale(slide.properties, cfg.downsample)
    IN  IF label = "similar" THEN Similar(slide.coords, scale, cfg)
        ELSE Dissimilar(slide.coords, scale, cfg)

\* the classifier finds fewer pairs of one kind than the run asks for
TooFewPairs(slide) ==
    /\ MPP_X \in DOMAIN slide.properties
    /\ \/ Len(Found(slide, "similar")) < cfg.num_similar_per_slide
       \/ Len(Found(slide, "dissimilar")) < cfg.num_dissimilar_per_slide

\* C11: a slide with fewer similar pairs than num_similar_per_slide or fewer
\* dissimilar pairs than num_dissimilar_per_slide has no shard file, mining it
\* ends the run with an exception, and a collection that a shard file holds has
\* at least the number of pairs the run asks for.
C11_MinimumCounts ==
    /\ \A s \in DOMAIN slides :
          /\ TooFewPairs(slides[s]) => ~Exists(shards[s])
          /\ Has(shards[s], "similar") =>
                Count(shards[s], "similar") >= cfg.num_similar_per_slide
          /\ Has(shards[s], "dissimilar") =>
                Count(shards[s], "dissimilar") >= cfg.num_dissimilar_per_slide
    /\ (mpc \in {"write", "opened", "similar_written"}) => ~TooFewPairs(slides[mi])

\* a run wrote the shard of its first slide and raised on the second, which
\* has similar pairs but too few dissimilar ones
C11_Witness ==
    /\ mpc = "raised"
    /\ Len(slides) = 2
    /\ raised = <<[slide_id |-> 2, reason |-> "dissimilar"]>>
    /\ ~Exists(shards[2])
    /\ Complete(shards[1])
    /\ Count(shards[1], "dissimilar") >= 4
    /\ cfg.num_dissimilar_per_slide = 4

\* every slide of the slides directory has a file in the save directory
Populated == \A s \in DOMAIN shards : shards[s].kind # "missing"

\* the run is between slides, or there is no run
BetweenSlides == mpc \notin {"write", "opened", "similar_written"}

\* C14: with auto_skip, once the save directory holds a file for every slide,
\* what (re-)runs do from there changes no shard file, and no slide gets past
\* the skip to the classifier: none is about to be written, none raises.
C14_RerunIdempotent ==
    [][(cfg.auto_skip /\ Populated /\ BetweenSlides) =>
          /\ shards' = shards
          /\ mpc' \in {"loop", "done", "killed"}]_vars

\* a run over two slides has ended with every shard complete, as it does when
\* it is started over a populated directory and skips both
C14_Witness ==
    /\ cfg.auto_skip
    /\ mpc = "done"
    /\ Len(slides) = 2
    /\ \A s \in DOMAIN slides :
          /\ shards[s] = Shard(slides[s], cfg)
          /\ Count(shards[s], "similar") > 0

\* C20: a run with auto_skip that reaches the end of the slides, also one
\* that follows an interrupted run, leaves every slide that meets its
\* requirements with the complete shard of an uninterrupted run.
C20_RecoveryAfterInterrupt ==
    (mpc = "done" /\ cfg.auto_skip) =>
        \A s \in DOMAIN slides :
            MeetsRequirements(slides[s]) => shards[s] = Shard(slides[s], cfg)

\* ------------------------------------------------ claims on the classifier
SeqToSet(q) == {q[k] : k \in 1..Len(q)}

\* the ordered pairs (i, j), i # j, of a slide's patches
OrderedPairs(slide) ==
    {<<i, j>> : i, j \in 0..(Len(slide.coords) - 1)} \ {<<i, i>> : i \in 0..(Len(slide.coords) - 1)}

\* (1000 * distance_mm[i, j]) ** 2 under the scale the run uses
DistanceOf(slide, ij) ==
    Distance2(slide.coords, Scale(slide.properties, cfg.downsample), ij[1], ij[2])

\* distance < t and distance > t in the reals, for a distance >= 0 given by
\* the square d2 of its microns and a threshold of t microns
NearerThan(d2, t) == t > 0 /\ d2 < t * t

FartherThan(d2, t) == t < 0 \/ d2 > t * t

\* C12: in a shard that a run has written, similar holds exactly the ordered
\* pairs (i, j), i # j, with 0 < distance < maximim_similar_mm and dissimilar
\* exactly those with distance > minimum_dissimilar_mm, each pair once.
C12_ExactClassification ==
    \A s \in DOMAIN shards :
        Complete(shards[s]) =>
            /\ SeqToSet(shards[s].data["similar"]) =
                  {ij \in OrderedPairs(slides[s]) :
                      /\ DistanceOf(slides[s], ij) > 0
                      /\ NearerThan(DistanceOf(slides[s], ij), cfg.maximim_similar_mm)}
            /\ SeqToSet(shards[s].data["dissimilar"]) =
                  {ij \in OrderedPairs(slides[s]) :
                      FartherThan(DistanceOf(slides[s], ij), cfg.minimum_dissimilar_mm)}
            /\ Cardinality(SeqToSet(shards[s].data["similar"])) = Count(shards[s], "similar")
            /\ Cardinality(SeqToSet(shards[s].data["dissimilar"]))
                  = Count(shards[s], "dissimilar")

\* C13: in a shard that a run has written, whatever the order of the two
\* distance thresholds (here both positive), no pair is both in similar and
\* in dissimilar.
C13_NoPairInBoth ==
    \A s \in DOMAIN shards :
        (Complete(shards[s]) /\ cfg.minimum_dissimilar_mm > 0) =>
            SeqToSet(shards[s].data["similar"])
                \cap SeqToSet(shards[s].data["dissimilar"]) = {}

\* both resolutions of a slide, when its properties hold them
HasBothAxes(slide) == {MPP_X, MPP_Y} \subseteq DOMAIN slide.properties

\* C16: for a slide that is classified, the scale of the run is
\* max(mpp_x, mpp_y) * downsample / 1000, here in microns per pixel.
C16_ScaleIsMaxOfAxes ==
    (mpc \in {"write", "opened", "similar_written"} /\ HasBothAxes(slides[mi])) =>
        Scale(slides[mi].properties, cfg.downsample)
            = Max({slides[mi].properties[MPP_X], slides[mi].properties[MPP_Y]})
                  * cfg.downsample

\* the run is at the write of a slide: its checks have passed
AtWrite == mpc \in {"write", "opened", "similar_written"}

\* C15: a slide whose properties lack the x or the y resolution never gets
\* past the metadata check: the run does not reach the write of its shard.
C15_MissingMetadataFails ==
    AtWrite => HasBothAxes(slides[mi])

FewCoords(slide) == Len(slide.coords) < 2

\* C18 as claimed: a slide with fewer than 2 coordinates never passes the
\* minimum-count checks, whatever the minimum counts, zero included.
C18_FewCoordsNeverWritten ==
    AtWrite => ~FewCoords(slides[mi])

\* the minimum counts that a slide with fewer than 2 coordinates cannot meet:
\* it has no similar pair, and no dissimilar entry but the diagonal (0, 0)
\* that one patch gives under a negative minimum_dissimilar_mm
Unmeetable(slide) ==
    \/ cfg.num_similar_per_slide >= 1
    \/ cfg.num_dissimilar_per_slide >= 2
    \/ cfg.num_dissimilar_per_slide >= 1 /\ cfg.minimum_dissimilar_mm >= 0
    \/ cfg.num_dissimilar_per_slide >= 1 /\ Len(slide.coords) = 0

\* C18 as amended: a slide with fewer than 2 coordinates passes the checks
\* only under minimum counts it can meet (both 0, or one dissimilar entry
\* asked of one patch under a negative threshold); under any other it has no
\* shard file, and with both minimum counts 0 it never raises a count failure.
C18_FewCoordsFailPositiveMinimum ==
    /\ (AtWrite /\ FewCoords(slides[mi])) => ~Unmeetable(slides[mi])
    /\ \A s \in DOMAIN slides :
          (FewCoords(slides[s]) /\ Unmeetable(slides[s])) => ~Exists(shards[s])
    /\ (mpc = "raised" /\ FewCoords(slides[mi])
            /\ cfg.num_similar_per_slide = 0 /\ cfg.num_dissimilar_per_slide = 0) =>
          raised[Len(raised)].reason = "mpp"

\* a run has raised on its one-patch slide for want of a dissimilar pair
C18_Witness ==
    /\ mpc = "raised"
    /\ Len(slides[mi].coords) = 1
    /\ raised = <<[slide_id |-> mi, reason |-> "dissimilar"]>>
    /\ cfg.num_similar_per_slide = 0
    /\ ~Exists(shards[mi])

====
